---- MODULE Spec2Model ----
(***************************************************************************)
(* PolyRoots (src/main.py): roots of all monic polynomials of degree d     *)
(* with coefficients in {-1,+1}, persisted to a data file and binned into  *)
(* an N x N heat map.                                                       *)
(*                                                                         *)
(* One behaviour is one run: a direct call of save_roots or heat_map, or   *)
(* one of the three GUI handlers with the background thread it starts.     *)
(* Coordinates are in tenths (1.8 is 18), so that bin edges are exact.     *)
(***************************************************************************)
EXTENDS Integers, Sequences, FiniteSets, TLC

(* ------------------------------ bounds -------------------------------- *)
\* largest degree whose run is explored
MaxDegree == 2
\* cpu_count(): the number of pool workers
NumWorkers == 2
\* largest grid size of a direct heat_map call
MaxSize == 3
\* longest root collection of an initial data file in HeatSpec
MaxRoots == 3

(* ------------------------- program constants -------------------------- *)
X_MAX == 18
X_MIN == -18
Y_MAX == 18
Y_MIN == -18
DEGREE_MIN == 1
DEGREE_MAX == 25
SIZE_MIN == 100
SIZE_MAX == 10000
DPI_MIN == 50
DPI_MAX == 10000
LOG_EVERY == 10000

(* ------------------------------ inputs -------------------------------- *)
\* A root the solver can return: one inside the window, one outside it.
RootInside == <<10, 0>>
RootOutside == <<19, 0>>
SolverPoints == {RootInside, RootOutside}
\* Points of a data file handed to heat_map: both window corners, a point
\* on an inner edge of the 3 x 3 grid, and one point outside on each axis.
HeatPoints == {<<-18, -18>>, <<18, 18>>, <<6, -6>>, <<19, 0>>, <<0, -19>>}

\* the data file: absent, unreadable as an array, or holding a flat array
NoFile == [state |-> "absent", data |-> <<>>]
Corrupt == [state |-> "corrupt", data |-> <<>>]
Stored(a) == [state |-> "array", data |-> a]
\* an argument: none, an integer, or a text that int() rejects
NoArg == [kind |-> "none", val |-> 0]
Num(n) == [kind |-> "int", val |-> n]
NotANumber == [kind |-> "text", val |-> 0]
\* what the text fields of the frame can hold
DegreeTexts == {NotANumber, Num(DEGREE_MIN - 1), Num(DEGREE_MAX + 1)}
                  \cup {Num(d) : d \in DEGREE_MIN .. MaxDegree}
SizeTexts == {NotANumber, Num(SIZE_MIN - 50), Num(SIZE_MIN), Num(SIZE_MAX + 10000)}
DpiTexts == {NotANumber, Num(DPI_MIN - 1), Num(DPI_MIN)}
\* arguments of a direct call, which no handler has looked at
DirectDegrees == -1 .. MaxDegree
DirectSizes == 0 .. MaxSize

(* ------------------------- arrays and helpers ------------------------- *)
RECURSIVE Concat(_)
\* np.concatenate of a list of 1-d arrays
Concat(arrays) ==
    IF arrays = <<>> THEN <<>> ELSE Head(arrays) \o Concat(Tail(arrays))

RECURSIVE SumCells(_)
\* the sum of the cells of a sparse grid (a function from hit cells to counts)
SumCells(cells) ==
    IF DOMAIN cells = {} THEN 0
    ELSE LET c == CHOOSE x \in DOMAIN cells : TRUE
         IN cells[c] + SumCells([d \in (DOMAIN cells) \ {c} |-> cells[d]])

\* np.array([]): shape (0,), size 0
EmptyArray == [shape |-> <<0>>, cells |-> <<>>]

RECURSIVE ShapeProduct(_)
ShapeProduct(shape) ==
    IF shape = <<>> THEN 1 ELSE Head(shape) * ShapeProduct(Tail(shape))

\* ndarray.size
ArraySize(a) == ShapeProduct(a.shape)

\* the value of a cell of a grid held sparsely
Cell(a, i, j) == IF <<i, j>> \in DOMAIN a.cells THEN a.cells[<<i, j>>] ELSE 0

(* -------------------------- the enumeration --------------------------- *)
RECURSIVE Product(_, _)
\* itertools.product(pool, repeat=r): the last position varies fastest
Product(pool, r) ==
    IF r = 0 THEN << <<>> >>
    ELSE LET prev == Product(pool, r - 1)
             n == Len(pool)
         IN [i \in 1 .. Len(prev) * n |->
                Append(prev[((i - 1) \div n) + 1], pool[((i - 1) % n) + 1])]

\* the generator with the 1 put after the combination: combo + (1,)
CoeffCombinationsTrailing(d) ==
    LET combos == Product(<<-1, 1>>, d)
    IN [i \in 1 .. Len(combos) |-> combos[i] \o <<1>>]

\* ((1,) + combo for combo in product([-1, 1], repeat=degree))
CoeffCombinations(d) ==
    LET combos == Product(<<-1, 1>>, d)
    IN [i \in 1 .. Len(combos) |-> <<1>> \o combos[i]]

(* ----------------------------- the solver ----------------------------- *)
\* np.roots(poly_coeffs): raises, or returns one root per degree. The answers
\* explored put all the roots of one polynomial at one of the SolverPoints.
np_roots(poly_coeffs) ==
    {[raised |-> TRUE, val |-> <<>>, logged |-> FALSE]} \cup
    {[raised |-> FALSE, val |-> [i \in 1 .. Len(poly_coeffs) - 1 |-> p], logged |-> FALSE] :
        p \in SolverPoints}

\* a compute_roots that lets the solver's exception through
compute_roots_propagating(poly_coeffs) == np_roots(poly_coeffs)

\* compute_roots: the solver's exception is logged and becomes an empty array
compute_roots(poly_coeffs) ==
    {IF o.raised THEN [raised |-> FALSE, val |-> <<>>, logged |-> TRUE] ELSE o :
        o \in np_roots(poly_coeffs)}

(* ---------------------------- the histogram --------------------------- *)
\* a bin index that puts an outlier into the border bin
BinIndexClamped(v, lo, hi, n) ==
    LET cnt == Cardinality({k \in 0 .. n : lo * n + k * (hi - lo) <= v * n})
    IN IF cnt < 1 THEN 1 ELSE IF cnt > n THEN n ELSE cnt

\* np.histogramdd: searchsorted(edges, v, side='right') over the n+1 edges
\* lo + k*(hi-lo)/n, and a value on the last edge moved into the last bin;
\* 0 and n+1 are the outlier bins
BinIndex(v, lo, hi, n) ==
    LET cnt == Cardinality({k \in 0 .. n : lo * n + k * (hi - lo) <= v * n})
    IN IF v = hi THEN cnt - 1 ELSE cnt

\* np.histogram2d(x, y, bins=n, range=[[X_MIN, X_MAX], [Y_MIN, Y_MAX]]):
\* the counts of the n x n core, the outlier bins cut off
Histogram2d(points, n) ==
    LET idx(p) == <<BinIndex(p[1], X_MIN, X_MAX, n), BinIndex(p[2], Y_MIN, Y_MAX, n)>>
        core == {k \in 1 .. Len(points) :
                    /\ idx(points[k])[1] \in 1 .. n
                    /\ idx(points[k])[2] \in 1 .. n}
        hit == {idx(points[k]) : k \in core}
    IN [shape |-> <<n, n>>,
        cells |-> [c \in hit |-> Cardinality({k \in core : idx(points[k]) = c})]]

\* np.log(img + 1), a cell at a time: ln(c + 1) kept as the pair <<"ln", c + 1>>
Log1p(a) == [shape |-> a.shape, cells |-> [c \in DOMAIN a.cells |-> <<"ln", a.cells[c] + 1>>]]

\* ln(v) > 0
LnPositive(v) == v[2] > 1

\* np.any(img > 0)
AnyPositive(a) == \E c \in DOMAIN a.cells : LnPositive(a.cells[c])

\* np.load succeeds on a file that holds an array
Loadable(f) == f.state = "array"

\* os.path.exists(datafile)
Exists(f) == f.state # "absent"

(* ------------------------------ the state ----------------------------- *)
VARIABLES
    pc,                 \* where the run is
    entry,              \* the entry point of the run
    args,               \* the degree, size and dpi the caller or the user gave
    degree,             \* save_roots: degree
    size,               \* heat_map: size
    hasCb,              \* a progress_callback was passed
    file,               \* the content of datafile
    coeff_combinations, \* save_roots: the generator, as the sequence it yields
    total_polys,        \* save_roots: total_polys
    nextTask,           \* the generator's position: the next vector to hand out
    inflight,           \* the tasks the pool's workers are computing
    results,            \* imap's buffer: finished tasks not yet yielded
    roots,              \* save_roots: the list roots
    processed,          \* save_roots: processed
    cbLog,              \* the calls of save_roots' progress_callback, in order
    flat,               \* save_roots: roots after np.concatenate
    saveFailed,         \* the step whose exception save_roots caught, or "none"
    poolStarted,        \* a Pool was created
    solveErrors,        \* the tasks whose failure compute_roots logged
    returned,           \* per task, the array its worker returned to the pool;
                        \* gone with the pool when an exception leaves the loop
    log,                \* the log lines written, as tags
    hist,               \* heat_map: img as histogram2d returns it
    img,                \* heat_map: the array returned
    heatCb,             \* the calls of heat_map's progress_callback
    dialog,             \* the message dialog shown to the user
    displayed,          \* DisplayHeatmap drew an image
    imageSaved          \* plt.savefig wrote the output image

saveVars == <<coeff_combinations, total_polys, nextTask, inflight, results, roots,
              processed, cbLog, flat, saveFailed, poolStarted, solveErrors, returned>>
heatVars == <<hist, img, heatCb>>
guiVars == <<dialog, displayed, imageSaved>>
callVars == <<entry, args, degree, size, hasCb>>
vars == <<pc, callVars, file, saveVars, heatVars, guiVars, log>>


\* the state of the run before anything has been called
Idle ==
    /\ pc = "idle"
    /\ entry = "none"
    /\ args = [degree |-> NoArg, size |-> NoArg, dpi |-> NoArg]
    /\ degree = 0
    /\ size = 0
    /\ hasCb = FALSE
    /\ coeff_combinations = <<>>
    /\ total_polys = 0
    /\ nextTask = 1
    /\ inflight = {}
    /\ results = <<>>
    /\ roots = <<>>
    /\ processed = 0
    /\ cbLog = <<>>
    /\ flat = <<>>
    /\ saveFailed = "none"
    /\ poolStarted = FALSE
    /\ solveErrors = {}
    /\ returned = <<>>
    /\ log = {}
    /\ hist = EmptyArray
    /\ img = EmptyArray
    /\ heatCb = <<>>
    /\ dialog = "none"
    /\ displayed = FALSE
    /\ imageSaved = FALSE

\* data files an earlier run, or the user, can have left
InitFiles == {NoFile, Stored(<<RootOutside, RootOutside>>)}

Init ==
    /\ Idle
    /\ file \in InitFiles

(* --------------------------- entering a run --------------------------- *)
\* GetDegree, GetSizeValue, GetDPI: int() accepts the text and the value is in range
InRange(t, lo, hi) == t.kind = "int" /\ lo <= t.val /\ t.val <= hi
GetDegree(t) == InRange(t, DEGREE_MIN, DEGREE_MAX)
GetSizeValue(t) == InRange(t, SIZE_MIN, SIZE_MAX)
GetDPI(t) == InRange(t, DPI_MIN, DPI_MAX)

\* a handler returns without starting a thread, showing dialog d
Refuse(name, a, d) ==
    /\ pc' = "done"
    /\ entry' = name
    /\ args' = a
    /\ dialog' = d
    /\ UNCHANGED <<degree, size, hasCb, file, saveVars, heatVars, displayed, imageSaved, log>>

\* a handler starts the thread `name`, which begins at `first`
StartThread(name, a, first) ==
    /\ pc' = first
    /\ entry' = name
    /\ args' = a
    /\ degree' = a.degree.val
    /\ size' = a.size.val
    /\ hasCb' = TRUE
    /\ UNCHANGED <<file, saveVars, heatVars, guiVars, log>>

\* a direct call save_roots(d, datafile, cb)
CallSaveRoots ==
    /\ pc = "idle"
    /\ \E d \in DirectDegrees, cb \in BOOLEAN :
        /\ pc' = "save_roots"
        /\ entry' = "save_roots"
        /\ args' = [degree |-> Num(d), size |-> NoArg, dpi |-> NoArg]
        /\ degree' = d
        /\ hasCb' = cb
    /\ UNCHANGED <<size, file, saveVars, heatVars, guiVars, log>>

\* a direct call heat_map(n, datafile, cb)
CallHeatMap ==
    /\ pc = "idle"
    /\ \E n \in DirectSizes, cb \in BOOLEAN :
        /\ pc' = "heat_map"
        /\ entry' = "heat_map"
        /\ args' = [degree |-> NoArg, size |-> Num(n), dpi |-> NoArg]
        /\ size' = n
        /\ hasCb' = cb
    /\ UNCHANGED <<degree, file, saveVars, heatVars, guiVars, log>>

\* the Roots button
OnSaveRoots ==
    /\ pc = "idle"
    /\ \E td \in DegreeTexts, confirm \in BOOLEAN :
        LET a == [degree |-> td, size |-> NoArg, dpi |-> NoArg]
        IN IF ~GetDegree(td) THEN Refuse("OnSaveRoots", a, "invalid_degree")
           ELSE IF ~confirm THEN Refuse("OnSaveRoots", a, "none")
           ELSE StartThread("RunSaveRoots", a, "save_roots")

\* the Heatmap button
OnGenerateHeatmap ==
    /\ pc = "idle"
    /\ \E td \in DegreeTexts, ts \in SizeTexts, tp \in DpiTexts :
        LET a == [degree |-> td, size |-> ts, dpi |-> tp]
        IN IF ~GetDegree(td) THEN Refuse("OnGenerateHeatmap", a, "invalid_degree")
           ELSE IF ~GetSizeValue(ts) THEN Refuse("OnGenerateHeatmap", a, "invalid_size")
           ELSE IF ~Exists(file) THEN Refuse("OnGenerateHeatmap", a, "missing_file")
           ELSE IF ~GetDPI(tp) THEN Refuse("OnGenerateHeatmap", a, "invalid_dpi")
           ELSE StartThread("RunGenerateHeatmap", a, "heat_map")

\* the All button
OnSaveAndGenerate ==
    /\ pc = "idle"
    /\ \E td \in DegreeTexts, ts \in SizeTexts, tp \in DpiTexts, confirm \in BOOLEAN :
        LET a == [degree |-> td, size |-> ts, dpi |-> tp]
        IN IF ~GetDegree(td) THEN Refuse("OnSaveAndGenerate", a, "invalid_degree")
           ELSE IF ~GetSizeValue(ts) THEN Refuse("OnSaveAndGenerate", a, "invalid_size")
           ELSE IF ~GetDPI(tp) THEN Refuse("OnSaveAndGenerate", a, "invalid_dpi")
           ELSE IF ~confirm THEN Refuse("OnSaveAndGenerate", a, "none")
           ELSE StartThread("RunSaveAndGenerate", a, "save_roots")

(* ----------------------------- save_roots ----------------------------- *)
\* the except clause of save_roots: the error is logged and the call returns
SaveRootsExcept(step) ==
    /\ saveFailed' = step
    /\ log' = log \cup {"save_roots_error"}
    /\ pc' = "save_return"

\* save_roots up to the creation of the pool
SaveRootsStart ==
    /\ pc = "save_roots"
    /\ IF degree < 0
       THEN \* product(..., repeat=degree) raises ValueError
            /\ SaveRootsExcept("enumerate")
            /\ UNCHANGED <<coeff_combinations, total_polys, poolStarted>>
       ELSE /\ total_polys' = 2 ^ degree
            /\ coeff_combinations' = CoeffCombinations(degree)
            /\ \E created \in BOOLEAN :
                IF created
                THEN /\ poolStarted' = TRUE
                     /\ pc' = "solving"
                     /\ UNCHANGED <<saveFailed, log>>
                ELSE \* Pool(...) raises OSError
                     /\ SaveRootsExcept("pool")
                     /\ UNCHANGED poolStarted
    /\ UNCHANGED <<callVars, file, nextTask, inflight, results, roots, processed, cbLog,
                   flat, solveErrors, returned, heatVars, guiVars>>

\* an idle worker (the pool has NumWorkers of them, all alike) takes the next
\* vector of the generator
WorkerTake ==
    /\ pc = "solving"
    /\ Cardinality(inflight) < NumWorkers
    /\ nextTask <= Len(coeff_combinations)
    /\ inflight' = inflight \cup {nextTask}
    /\ nextTask' = nextTask + 1
    /\ UNCHANGED <<pc, callVars, file, coeff_combinations, total_polys, results, roots,
                   processed, cbLog, flat, saveFailed, poolStarted, solveErrors, returned,
                   heatVars, guiVars, log>>

\* a worker finishes compute_roots on its vector and hands the result back
WorkerDone ==
    /\ pc = "solving"
    /\ \E k \in inflight :
        /\ \E o \in compute_roots(coeff_combinations[k]) :
            /\ results' = [i \in DOMAIN results \cup {k} |->
                              IF i = k THEN o ELSE results[i]]
            /\ solveErrors' = IF o.logged THEN solveErrors \cup {k} ELSE solveErrors
            /\ returned' = [i \in DOMAIN returned \cup {k} |->
                               IF i = k THEN o.val ELSE returned[i]]
        /\ inflight' = inflight \ {k}
    /\ UNCHANGED <<pc, callVars, file, coeff_combinations, total_polys, nextTask, roots,
                   processed, cbLog, flat, saveFailed, poolStarted, heatVars, guiVars, log>>

\* roots.append that leaves an empty batch out
AppendBatchNonEmpty(rs, batch) == IF batch = <<>> THEN rs ELSE Append(rs, batch)

\* roots.append(roots_batch)
AppendBatch(rs, batch) == Append(rs, batch)

\* a progress callback called only at the logging milestones
ProgressCallsThrottled(calls, given, n, total) ==
    IF given /\ n % LOG_EVERY = 0 THEN Append(calls, <<n, total>>) ELSE calls

\* if progress_callback: progress_callback(processed, total_polys)
ProgressCalls(calls, given, n, total) ==
    IF given THEN Append(calls, <<n, total>>) ELSE calls

\* if processed % 10000 == 0: logging.info(...)
Milestone(lg, n) == IF n % LOG_EVERY = 0 THEN lg \cup {"milestone"} ELSE lg

\* an iterator that yields a finished task whatever its place (imap_unordered):
\* here the last one enumerated among those finished
NextYieldUnordered(buffer, n) ==
    IF DOMAIN buffer = {} THEN n + 1
    ELSE CHOOSE k \in DOMAIN buffer : \A j \in DOMAIN buffer : j <= k

\* pool.imap: after n results, the iterator yields the result of task n + 1,
\* and waits for it while other tasks finish
NextYield(buffer, n) == n + 1

\* one turn of the loop over pool.imap: the next result in order
DriverNext ==
    /\ pc = "solving"
    /\ NextYield(results, processed) \in DOMAIN results
    /\ LET o == results[NextYield(results, processed)]
           rest == [i \in DOMAIN results \ {NextYield(results, processed)} |-> results[i]]
       IN IF o.raised
          THEN \* imap re-raises the task's exception in the driver
               /\ SaveRootsExcept("solve")
               /\ inflight' = {}
               /\ results' = <<>>
               /\ returned' = <<>>
               /\ UNCHANGED <<roots, processed, cbLog>>
          ELSE /\ roots' = AppendBatch(roots, o.val)
               /\ processed' = processed + 1
               /\ cbLog' = ProgressCalls(cbLog, hasCb, processed + 1, total_polys)
               /\ \E cbRaises \in (IF hasCb THEN BOOLEAN ELSE {FALSE}) :
                    IF cbRaises
                    THEN /\ SaveRootsExcept("solve")
                         /\ inflight' = {}
                         /\ results' = <<>>
                         /\ returned' = <<>>
                    ELSE /\ log' = Milestone(log, processed + 1)
                         /\ results' = rest
                         /\ UNCHANGED <<pc, saveFailed, inflight, returned>>
    /\ UNCHANGED <<callVars, file, coeff_combinations, total_polys, nextTask, flat,
                   poolStarted, solveErrors, heatVars, guiVars>>

\* the generator is exhausted: the pool is closed and the batches are joined
Concatenate ==
    /\ pc = "solving"
    /\ nextTask > Len(coeff_combinations)
    /\ processed = nextTask - 1
    /\ \E joined \in BOOLEAN :
        IF joined
        THEN /\ flat' = Concat(roots)
             /\ pc' = "write"
             /\ UNCHANGED <<saveFailed, log>>
        ELSE \* np.concatenate raises MemoryError
             /\ SaveRootsExcept("concatenate")
             /\ UNCHANGED flat
    /\ UNCHANGED <<callVars, file, coeff_combinations, total_polys, nextTask, inflight,
                   results, roots, processed, cbLog, poolStarted, solveErrors, returned,
                   heatVars, guiVars>>

\* an np.save placed inside the loop: the file follows the batches collected so far
SaveDuringSolving ==
    /\ pc \in {"solving", "write"}
    /\ file' = Stored(Concat(roots))
    /\ log' = log \cup {"saved"}
    /\ pc' = IF pc = "write" THEN "save_return" ELSE pc
    /\ UNCHANGED <<callVars, saveVars, heatVars, guiVars>>

\* np.save(datafile, roots): the array is written, or the write fails with the
\* file not opened (unchanged) or cut short (unreadable)
Save ==
    /\ pc = "write"
    /\ \E written \in {"yes", "not_opened", "cut_short"} :
        IF written = "yes"
        THEN /\ file' = Stored(flat)
             /\ log' = log \cup {"saved"}
             /\ pc' = "save_return"
             /\ UNCHANGED saveFailed
        ELSE /\ file' = IF written = "cut_short" THEN Corrupt ELSE file
             /\ SaveRootsExcept("write")
    /\ UNCHANGED <<callVars, coeff_combinations, total_polys, nextTask, inflight, results,
                   roots, processed, cbLog, flat, poolStarted, solveErrors, returned,
                   heatVars, guiVars>>

\* save_roots returns to a direct caller
SaveRootsReturn ==
    /\ pc = "save_return"
    /\ entry = "save_roots"
    /\ pc' = "done"
    /\ UNCHANGED <<callVars, file, saveVars, heatVars, guiVars, log>>

\* RunSaveRoots after its call of save_roots
RunSaveRootsFinish ==
    /\ pc = "save_return"
    /\ entry = "RunSaveRoots"
    /\ dialog' = "roots_saved"
    /\ pc' = "done"
    /\ UNCHANGED <<callVars, file, saveVars, heatVars, displayed, imageSaved, log>>

\* RunSaveAndGenerate after its call of save_roots: on to heat_map
RunSaveAndGenerateContinue ==
    /\ pc = "save_return"
    /\ entry = "RunSaveAndGenerate"
    /\ pc' = "heat_map"
    /\ UNCHANGED <<callVars, file, saveVars, heatVars, guiVars, log>>

(* ------------------------------ heat_map ------------------------------ *)
\* heat_map, whole: load, histogram, callback, log scaling; any exception is
\* logged and an empty array returned
HeatMap ==
    /\ pc = "heat_map"
    /\ IF Loadable(file) /\ size >= 1
       THEN /\ hist' = Histogram2d(file.data, size)
            /\ heatCb' = IF hasCb THEN Append(heatCb, <<size, size>>) ELSE heatCb
            /\ img' = Log1p(hist')
            /\ UNCHANGED log
       ELSE \* np.load raises, or histogram2d rejects bins < 1
            /\ img' = EmptyArray
            /\ log' = log \cup {"heat_map_error"}
            /\ UNCHANGED <<hist, heatCb>>
    /\ pc' = "heat_return"
    /\ UNCHANGED <<callVars, file, saveVars, guiVars>>

\* heat_map returns to a direct caller
HeatMapReturn ==
    /\ pc = "heat_return"
    /\ entry = "heat_map"
    /\ pc' = "done"
    /\ UNCHANGED <<callVars, file, saveVars, heatVars, guiVars, log>>

\* what a Run... thread does with the array heat_map returned: an empty array
\* is an error; anything else is drawn (when it has a positive cell), saved as
\* an image and announced with the dialog `saved`
ShowAndSave(saved) ==
    IF ArraySize(img) = 0
    THEN /\ dialog' = "error"
         /\ log' = log \cup {"run_error"}
         /\ UNCHANGED <<displayed, imageSaved>>
    ELSE /\ displayed' = AnyPositive(img)
         /\ log' = (IF AnyPositive(img) THEN log ELSE log \cup {"no_positive_values"})
                      \cup {"heatmap_saved"}
         /\ imageSaved' = TRUE
         /\ dialog' = saved

\* RunGenerateHeatmap after its call of heat_map
RunGenerateHeatmapFinish ==
    /\ pc = "heat_return"
    /\ entry = "RunGenerateHeatmap"
    /\ ShowAndSave("heatmap_saved")
    /\ pc' = "done"
    /\ UNCHANGED <<callVars, file, saveVars, heatVars>>

\* RunSaveAndGenerate after its call of heat_map
RunSaveAndGenerateFinish ==
    /\ pc = "heat_return"
    /\ entry = "RunSaveAndGenerate"
    /\ ShowAndSave("roots_and_heatmap_saved")
    /\ pc' = "done"
    /\ UNCHANGED <<callVars, file, saveVars, heatVars>>

(* -------------------------- the specifications ------------------------ *)
Next ==
    \/ CallSaveRoots
    \/ CallHeatMap
    \/ OnSaveRoots
    \/ OnGenerateHeatmap
    \/ OnSaveAndGenerate
    \/ SaveRootsStart
    \/ WorkerTake
    \/ WorkerDone
    \/ DriverNext
    \/ Concatenate
    \/ Save
    \/ SaveRootsReturn
    \/ RunSaveRootsFinish
    \/ RunSaveAndGenerateContinue
    \/ HeatMap
    \/ HeatMapReturn
    \/ RunGenerateHeatmapFinish
    \/ RunSaveAndGenerateFinish

Spec == Init /\ [][Next]_vars

\* save_roots called directly, with any degree and with or without a callback
SaveNext ==
    \/ CallSaveRoots
    \/ SaveRootsStart
    \/ WorkerTake
    \/ WorkerDone
    \/ DriverNext
    \/ Concatenate
    \/ Save
    \/ SaveRootsReturn

SaveSpec == Init /\ [][SaveNext]_vars

\* heat_map called directly on any small data file
RECURSIVE SeqsUpTo(_, _)
SeqsUpTo(S, n) ==
    IF n = 0 THEN {<<>>}
    ELSE LET shorter == SeqsUpTo(S, n - 1)
         IN shorter \cup {Append(q, x) : q \in shorter, x \in S}

HeatInit ==
    /\ Idle
    /\ file \in {NoFile, Corrupt} \cup {Stored(q) : q \in SeqsUpTo(HeatPoints, MaxRoots)}

HeatNext == CallHeatMap \/ HeatMap \/ HeatMapReturn

HeatSpec == HeatInit /\ [][HeatNext]_vars

(* ------------------------------ properties ---------------------------- *)
\* save_roots has built its generator
Enumerated == total_polys > 0

\* np.save has completed in this run
Saved == "saved" \in log

\* bit b (0 the lowest) of n
Bit(n, b) == (n \div (2 ^ b)) % 2

\* every coefficient vector of degree d: 1, then d entries of -1 or +1
AllVectors(d) == {<<1>> \o t : t \in [1 .. d -> {-1, 1}]}

\* C1: for a degree in [1,25], the sequence save_roots enumerates has exactly
\* 2^d vectors, pairwise distinct, each of length d+1 with first element 1 and
\* the others in {-1,+1}; every such vector appears; and the order is fixed:
\* vector k spells k-1 in binary, highest bit first, with -1 for 0 and +1 for 1.
C1_Enumeration ==
    (Enumerated /\ degree >= DEGREE_MIN /\ degree <= DEGREE_MAX) =>
        LET cs == coeff_combinations
        IN /\ Len(cs) = 2 ^ degree
           /\ \A i \in 1 .. Len(cs) :
                /\ Len(cs[i]) = degree + 1
                /\ cs[i][1] = 1
                /\ \A j \in 1 .. degree :
                     cs[i][j + 1] = IF Bit(i - 1, degree - j) = 1 THEN 1 ELSE -1
           /\ \A i, j \in 1 .. Len(cs) : i # j => cs[i] # cs[j]
           /\ \A v \in AllVectors(degree) : \E i \in 1 .. Len(cs) : cs[i] = v

C1_Witness ==
    /\ pc = "solving"
    /\ degree = 2
    /\ nextTask = 5
    /\ coeff_combinations = << <<1, -1, -1>>, <<1, -1, 1>>, <<1, 1, -1>>, <<1, 1, 1>> >>

\* C2: every enumerated vector contributes exactly one RootSet (possibly empty)
\* before the collection is persisted: the accumulator grows by one per result
\* taken, holds 2^d RootSets when the batches are joined and saved, and when no
\* solve failed the persisted collection has d * 2^d roots.
C2_Accounting ==
    Enumerated =>
        /\ Len(roots) = processed
        /\ (pc = "write" \/ Saved) =>
             /\ Len(roots) = 2 ^ degree
             /\ flat = Concat(roots)
        /\ Saved => file = Stored(flat)
        /\ (Saved /\ solveErrors = {}) => Len(file.data) = degree * (2 ^ degree)

C2_Witness ==
    /\ Saved
    /\ degree = 2
    /\ solveErrors = {}
    /\ Len(roots) = 4
    /\ Len(file.data) = 8

\* C3: with a callback, the calls are (1, 2^d), (2, 2^d), ... in this order,
\* one per RootSet taken from the pool; call k comes only when k RootSets are in
\* the accumulator; and all 2^d calls have been made before the file is written.
\* Without a callback nothing is called.
C3_Progress ==
    Enumerated =>
        /\ hasCb =>
             /\ Len(cbLog) = processed
             /\ Len(cbLog) <= Len(roots)
             /\ \A k \in 1 .. Len(cbLog) : cbLog[k] = <<k, 2 ^ degree>>
             /\ (pc = "write" \/ Saved) => Len(cbLog) = 2 ^ degree
        /\ ~hasCb => cbLog = <<>>

C3_Witness ==
    /\ hasCb
    /\ degree = 2
    /\ Saved
    /\ cbLog = << <<1, 4>>, <<2, 4>>, <<3, 4>>, <<4, 4>> >>
    /\ "milestone" \notin log

\* C4: a solve that fails inside compute_roots yields an empty RootSet and is
\* never seen as an exception by the driver: without a callback the loop never
\* fails, the failed unit still gets its place in the accumulator and its
\* progress call, and what is persisted is the concatenation of all RootSets,
\* the failed ones empty and the others with d roots each.
C4_SolveFailureIsolated ==
    Enumerated =>
        /\ \A k \in DOMAIN results : ~results[k].raised
        /\ \A k \in solveErrors :
             /\ k \in DOMAIN results => results[k].val = <<>>
             /\ k <= Len(roots) => roots[k] = <<>>
             /\ (hasCb /\ k <= processed) => cbLog[k] = <<k, total_polys>>
        /\ saveFailed = "solve" => hasCb
        /\ Saved =>
             /\ Len(roots) = Len(coeff_combinations)
             /\ file.data = Concat(roots)
             /\ \A k \in 1 .. Len(roots) :
                  Len(roots[k]) = IF k \in solveErrors THEN 0 ELSE degree

C4_Witness ==
    /\ Saved
    /\ degree = 2
    /\ solveErrors = {2}
    /\ Len(file.data) = 6
    /\ pc = "done"

\* C5: a degree outside [1,25] or a size outside [100,10000] is rejected before
\* anything is computed, at every entry point: nothing is enumerated, no pool is
\* started, the data file is not written and no histogram is computed.
BadDegree == args.degree.kind # "none" /\ ~GetDegree(args.degree)
BadSize == args.size.kind # "none" /\ ~GetSizeValue(args.size)

C5_RejectedWithoutEffect ==
    (BadDegree \/ BadSize) =>
        /\ nextTask = 1
        /\ inflight = {}
        /\ ~poolStarted
        /\ ~Saved
        /\ file \in InitFiles
        /\ hist = EmptyArray
        /\ pc \in {"done", "save_roots", "heat_map", "save_return", "heat_return"}

\* the histogram heat_map computed has no strictly positive cell
EmptyResult ==
    /\ pc = "done"
    /\ hist.shape = <<size, size>>
    /\ SumCells(hist.cells) = 0

\* C6: a run of the frame whose histogram has no strictly positive cell ends
\* with an error reported to the user, never with the image saved and a
\* success dialog.
C6_EmptyResultReported ==
    (EmptyResult /\ entry \in {"RunGenerateHeatmap", "RunSaveAndGenerate"}) =>
        /\ ~imageSaved
        /\ dialog = "error"

\* C7: in a combined run, once save_roots has failed the run loads and
\* aggregates nothing and does not end as done.
C7_FailedIsTerminal ==
    (entry = "RunSaveAndGenerate" /\ saveFailed # "none") =>
        /\ hist = EmptyArray
        /\ ~imageSaved
        /\ dialog # "roots_and_heatmap_saved"

\* C8: RunSaveRoots announces "roots saved" only if the collection was written
\* in this run, and reports an error when save_roots failed.
C8_SaveFailureReported ==
    (entry = "RunSaveRoots" /\ pc = "done") =>
        /\ dialog = "roots_saved" => Saved
        /\ saveFailed # "none" => dialog = "error"

\* the point lies in the window [-1.8,1.8] x [-1.8,1.8]
InWindow(p) == X_MIN <= p[1] /\ p[1] <= X_MAX /\ Y_MIN <= p[2] /\ p[2] <= Y_MAX

\* v lies in bin i of the n equal bins of [lo,hi]: half-open, the last one closed
InBin(v, lo, hi, i, n) ==
    /\ lo * n + (i - 1) * (hi - lo) <= v * n
    /\ IF i = n THEN v <= hi ELSE v * n < lo * n + i * (hi - lo)

InCell(p, i, j, n) == InBin(p[1], X_MIN, X_MAX, i, n) /\ InBin(p[2], Y_MIN, Y_MAX, j, n)

\* C9: the raw counts of the N x N histogram sum to at most the number of
\* roots, with equality exactly when no root lies outside the window; a root
\* outside the window is counted in no cell, a root inside in exactly one (the
\* cell whose bins hold it), and each cell counts the roots that lie in it.
C9_HistogramCounts ==
    (pc \in {"heat_return", "done"} /\ "heat_map_error" \notin log) =>
        LET pts == file.data
            n == size
            all == 1 .. Len(pts)
            cellsOf(k) == {c \in (1 .. n) \X (1 .. n) : InCell(pts[k], c[1], c[2], n)}
        IN /\ hist.shape = <<n, n>>
           /\ DOMAIN hist.cells \subseteq (1 .. n) \X (1 .. n)
           /\ SumCells(hist.cells) <= Len(pts)
           /\ SumCells(hist.cells) = Len(pts) <=> \A k \in all : InWindow(pts[k])
           /\ SumCells(hist.cells) = Cardinality({k \in all : InWindow(pts[k])})
           /\ \A k \in all :
                Cardinality(cellsOf(k)) = IF InWindow(pts[k]) THEN 1 ELSE 0
           /\ \A c \in (1 .. n) \X (1 .. n) :
                Cell(hist, c[1], c[2]) = Cardinality({k \in all : c \in cellsOf(k)})

C9_Witness ==
    /\ pc = "done"
    /\ size = 3
    /\ file = Stored(<< <<18, 18>>, <<19, 0>>, <<6, -6>> >>)
    /\ SumCells(hist.cells) = 2
    /\ Cell(hist, 3, 3) = 1
    /\ Cell(hist, 3, 2) = 1

\* C10: the data file changes in one step only, the write that follows the
\* collection and concatenation of all 2^d units; a run that fails while
\* enumerating, starting the pool, solving or concatenating leaves it as it was.
C10_FileWrittenOnce ==
    [][/\ file' # file =>
            /\ pc = "write"
            /\ pc' = "save_return"
            /\ processed = 2 ^ degree
            /\ Len(roots) = 2 ^ degree
            /\ flat = Concat(roots)
       /\ saveFailed' \in {"enumerate", "pool", "solve", "concatenate"} => file' = file]_vars

C10_Witness ==
    /\ saveFailed = "solve"
    /\ degree = 2
    /\ processed = 3
    /\ pc = "save_return"
    /\ file = Stored(<<RootOutside, RootOutside>>)

\* C11: workers finish in any order, but the loop takes results in enumeration
\* order: RootSet k of the accumulator is the array the worker of vector k
\* returned, so what is persisted is the concatenation of the workers' arrays
\* in enumeration order whatever the interleaving; and the accumulator and the
\* counter change only in a step of the driver's loop, which appends the
\* result of the next vector, adds one to the counter and touches nothing the
\* workers write.
C11_OrderedSingleWriter ==
    /\ []((Enumerated /\ saveFailed # "solve") =>
            /\ \A k \in 1 .. Len(roots) : k \in DOMAIN returned /\ roots[k] = returned[k]
            /\ \A k \in DOMAIN results : k > processed /\ results[k].val = returned[k]
            /\ Saved =>
                 /\ DOMAIN returned = 1 .. (2 ^ degree)
                 /\ file.data = Concat([k \in 1 .. (2 ^ degree) |-> returned[k]]))
    /\ [][(roots' # roots \/ processed' # processed) =>
            /\ pc = "solving"
            /\ processed + 1 \in DOMAIN results
            /\ roots' = Append(roots, returned[processed + 1])
            /\ processed' = processed + 1
            /\ returned' \in {returned, <<>>}
            /\ solveErrors' = solveErrors
            /\ nextTask' = nextTask
            /\ inflight' \in {inflight, {}}]_vars

C11_Witness ==
    /\ pc = "solving"
    /\ degree = 2
    /\ processed = 1
    /\ inflight = {2}
    /\ DOMAIN results = {3}
    /\ DOMAIN returned = {1, 3}
    /\ roots = <<returned[1]>>
    /\ returned[3] # returned[1]

====
